---- MODULE Spec2Model ----
(***************************************************************************)
(* Sediment reuse pipeline: Sediment_out.py -> Sediment_Use.py ->          *)
(* economic_value.py, and the independent Site_Specific_Analysis.py.       *)
(*                                                                         *)
(* Floating-point columns are modelled as exact decimal rationals          *)
(*   [n, d, e]  =  n / d * 10^e      (d coprime to 10, gcd(n,d) = 1)       *)
(* with d = 0 for the non-finite values of a float column:                 *)
(*   NaN = [0,0,0], +inf = [1,0,0], -inf = [-1,0,0].                       *)
(***************************************************************************)
EXTENDS Integers, Sequences, FiniteSets, TLC

----------------------------------------------------------------------------
(* Exact arithmetic with pandas/numpy missing-value semantics *)

Abs(x) == IF x < 0 THEN -x ELSE x

RECURSIVE Gcd(_, _)
Gcd(a, b) == IF b = 0 THEN a ELSE Gcd(b, a % b)

RECURSIVE Pow10(_)
Pow10(k) == IF k = 0 THEN 1 ELSE 10 * Pow10(k - 1)

NaN    == [n |-> 0,  d |-> 0, e |-> 0]
Inf    == [n |-> 1,  d |-> 0, e |-> 0]
NegInf == [n |-> -1, d |-> 0, e |-> 0]
Zero   == [n |-> 0,  d |-> 1, e |-> 0]

IsNaN(x)    == x.d = 0 /\ x.n = 0
IsFinite(x) == x.d # 0
Sign(x)     == IF x.n > 0 THEN 1 ELSE IF x.n < 0 THEN -1 ELSE 0

\* move the factors 2 and 5 of the denominator into the decimal exponent
RECURSIVE StripDen(_, _, _)
StripDen(n, d, e) ==
    IF d % 2 = 0 THEN StripDen(n * 5, d \div 2, e - 1)
    ELSE IF d % 5 = 0 THEN StripDen(n * 2, d \div 5, e - 1)
    ELSE [n |-> n, d |-> d, e |-> e]

\* move the factors 10 of the numerator into the decimal exponent
RECURSIVE StripNum(_)
StripNum(x) ==
    IF x.n % 10 = 0 THEN StripNum([n |-> x.n \div 10, d |-> x.d, e |-> x.e + 1])
    ELSE x

\* canonical form of n / d * 10^e, d > 0
Norm(n, d, e) ==
    IF n = 0 THEN Zero
    ELSE LET g == Gcd(Abs(n), d)
         IN  StripNum(StripDen(n \div g, d \div g, e))

Num(k)    == Norm(k, 1, 0)
Dec(k, e) == Norm(k, 1, e)

Neg(x) == [n |-> -x.n, d |-> x.d, e |-> x.e]

\* operands are canonical, so after cross-cancelling only the factors 10 of
\* the numerator remain to be moved
Mul(a, b) ==
    IF IsNaN(a) \/ IsNaN(b) THEN NaN
    ELSE IF ~IsFinite(a) \/ ~IsFinite(b)
         THEN (IF Sign(a) * Sign(b) > 0 THEN Inf
               ELSE IF Sign(a) * Sign(b) < 0 THEN NegInf ELSE NaN)
    ELSE IF a.n = 0 \/ b.n = 0 THEN Zero
    ELSE IF a.d = 1 /\ b.d = 1
         THEN StripNum([n |-> a.n * b.n, d |-> 1, e |-> a.e + b.e])
    ELSE LET g1 == Gcd(Abs(a.n), b.d)
             g2 == Gcd(Abs(b.n), a.d)
         IN  StripNum([n |-> (a.n \div g1) * (b.n \div g2),
                       d |-> (a.d \div g2) * (b.d \div g1),
                       e |-> a.e + b.e])

\* 1 / b for finite b # 0
Recip(b) ==
    IF Abs(b.n) = 1 THEN [n |-> b.n * b.d, d |-> 1, e |-> -b.e]
    ELSE LET s == IF b.n < 0 THEN -1 ELSE 1
         IN  StripDen(s * b.d, Abs(b.n), -b.e)

\* float division: x/0 is +-inf, 0/0 is NaN, never an exception
Div(a, b) ==
    IF IsNaN(a) \/ IsNaN(b) THEN NaN
    ELSE IF ~IsFinite(b) THEN (IF IsFinite(a) THEN Zero ELSE NaN)
    ELSE IF ~IsFinite(a) THEN (IF Sign(b) < 0 THEN Neg(a) ELSE a)
    ELSE IF b.n = 0
         THEN (IF a.n > 0 THEN Inf ELSE IF a.n < 0 THEN NegInf ELSE NaN)
    ELSE Mul(a, Recip(b))

Add(a, b) ==
    IF IsNaN(a) \/ IsNaN(b) THEN NaN
    ELSE IF ~IsFinite(a) THEN (IF ~IsFinite(b) /\ b # a THEN NaN ELSE a)
    ELSE IF ~IsFinite(b) THEN b
    ELSE IF a.n = 0 THEN b
    ELSE IF b.n = 0 THEN a
    ELSE LET m  == IF a.e < b.e THEN a.e ELSE b.e
         IN  IF a.d = 1 /\ b.d = 1
             THEN LET k == a.n * Pow10(a.e - m) + b.n * Pow10(b.e - m)
                  IN  IF k = 0 THEN Zero
                      ELSE StripNum([n |-> k, d |-> 1, e |-> m])
             ELSE LET l == (a.d \div Gcd(a.d, b.d)) * b.d
                  IN  Norm(a.n * Pow10(a.e - m) * (l \div a.d)
                             + b.n * Pow10(b.e - m) * (l \div b.d), l, m)

Sub(a, b) == Add(a, Neg(b))

\* a < b ; any comparison with NaN is false
Lt(a, b) ==
    IF IsNaN(a) \/ IsNaN(b) THEN FALSE
    ELSE IF ~IsFinite(a) THEN a = NegInf /\ b # NegInf
    ELSE IF ~IsFinite(b) THEN b = Inf
    ELSE IF Sign(a) # Sign(b) THEN Sign(a) < Sign(b)
    ELSE IF a.n = 0 THEN FALSE
    ELSE LET m == IF a.e < b.e THEN a.e ELSE b.e
         IN  a.n * Pow10(a.e - m) * b.d < b.n * Pow10(b.e - m) * a.d

Gt(a, b) == Lt(b, a)
Le(a, b) == ~IsNaN(a) /\ ~IsNaN(b) /\ ~Lt(b, a)

\* Series.fillna(v)
FillNa(x, v) == IF IsNaN(x) THEN v ELSE x

\* Series.clip(lower=lo) / clip(upper=hi) / clip(lo, hi): NaN stays NaN
ClipLower(x, lo) == IF Lt(x, lo) THEN lo ELSE x
ClipUpper(x, hi) == IF Gt(x, hi) THEN hi ELSE x
Clip(x, lo, hi)  == ClipUpper(ClipLower(x, lo), hi)

\* Series.sum(): missing values are skipped, the empty sum is 0
RECURSIVE SumSkipNa(_)
SumSkipNa(s) ==
    IF s = <<>> THEN Zero
    ELSE IF IsNaN(Head(s)) THEN SumSkipNa(Tail(s))
    ELSE Add(Head(s), SumSkipNa(Tail(s)))

\* Series.count(): number of non-missing values
RECURSIVE CountNotNa(_)
CountNotNa(s) ==
    IF s = <<>> THEN 0
    ELSE (IF IsNaN(Head(s)) THEN 0 ELSE 1) + CountNotNa(Tail(s))

\* a bug: the value of every row of the group added up
SumOfGroup(s) == SumSkipNa(s)

\* groupby "first": first non-missing value of the group, NaN when none
RECURSIVE FirstNotNa(_)
FirstNotNa(s) ==
    IF s = <<>> THEN NaN
    ELSE IF IsNaN(Head(s)) THEN FirstNotNa(Tail(s))
    ELSE Head(s)

\* DataFrame.min(axis=1) over two columns: missing values are skipped
RowMin(a, b) ==
    IF IsNaN(a) THEN b
    ELSE IF IsNaN(b) THEN a
    ELSE IF Lt(b, a) THEN b ELSE a

----------------------------------------------------------------------------
(* Bounds of the model *)

MaxStation == 2
MaxYear    == 2
MaxEvents  == 2

Stations == 1..MaxStation
Years    == 1..MaxYear

----------------------------------------------------------------------------
(* Program constants *)

ACRE_TO_HA == Dec(4046856, -7)     \* sites["Area"] * 0.4046856
LB_TO_KG   == Dec(45359237, -8)    \* pounds * 0.45359237
MG_PER_KG  == Dec(1, 6)            \* / 1e6
G_PER_KG   == Num(1000)            \* * 1000.0 and / 1000.0
dose_kg_per_ha == Num(20000)       \* Sediment_out.py, 20 t/ha
DOSE_KG_PER_HA == Num(20000)       \* Sediment_Use.py

----------------------------------------------------------------------------
(* Inputs: RAW/EOF_Site_Table.csv and                                      *)
(* RAW/All_EOF_StormEventLoadsRainCalculated.csv                           *)

\* an amount given in the source unit of a column, named by its converted value
Acres(ha)  == Div(ha, ACRE_TO_HA)
Pounds(kg) == Div(kg, LB_TO_KG)

\* the site table: one row per station (unique key), catchment area in acres
SiteAcres(st) ==
    IF st = 1 THEN Acres(Num(100)) ELSE IF st = 2 THEN Acres(Num(10)) ELSE Acres(Num(5))

SiteTables == { [st \in Stations |-> SiteAcres(st)] }

\* the text of a storm_start cell: a timestamp (year, month) or an empty cell
NoText == [present |-> FALSE, y |-> 0, mo |-> 0]
Stamp(y, mo) == [present |-> TRUE, y |-> y, mo |-> mo]

\* the timestamps of the model: one per year, one unparseable, one empty
StartList ==
    [i \in 1..(MaxYear + 2) |->
        IF i <= MaxYear THEN Stamp(i, 6)
        ELSE IF i = MaxYear + 1 THEN Stamp(1, 13) ELSE NoText]

\* measurements of one storm event (mg/L, litres, pounds); NaN = empty cell
AllReadings ==
    [runoff_volume |-> Dec(1, 9),
     suspended_sediment_load_pounds |-> Pounds(Dec(2, 6)),
     total_phosphorus_unfiltered_conc_mgL |-> Dec(5, -1),
     total_nitrogen_conc_mgL |-> Num(5),
     suspended_sediment_conc_mgL |-> Num(2000),
     orthophosphate_conc_mgL |-> Dec(1, -1),
     total_Kjeldahl_nitrogen_unfiltered_conc_mgL |-> Dec(45, -1),
     ammonia_plus_ammonium_conc_mgL |-> Dec(5, -1)]

\* the sediment sampler alone worked
SedimentOnly ==
    [runoff_volume |-> Dec(1, 9),
     suspended_sediment_load_pounds |-> Pounds(Num(1000)),
     total_phosphorus_unfiltered_conc_mgL |-> NaN,
     total_nitrogen_conc_mgL |-> NaN,
     suspended_sediment_conc_mgL |-> Num(1),
     orthophosphate_conc_mgL |-> NaN,
     total_Kjeldahl_nitrogen_unfiltered_conc_mgL |-> NaN,
     ammonia_plus_ammonium_conc_mgL |-> NaN]

\* the nitrogen sampler alone worked, without an ammonia reading
NitrogenOnly ==
    [runoff_volume |-> Dec(1, 9),
     suspended_sediment_load_pounds |-> Zero,
     total_phosphorus_unfiltered_conc_mgL |-> NaN,
     total_nitrogen_conc_mgL |-> Dec(5, -2),
     suspended_sediment_conc_mgL |-> NaN,
     orthophosphate_conc_mgL |-> NaN,
     total_Kjeldahl_nitrogen_unfiltered_conc_mgL |-> Dec(4, -2),
     ammonia_plus_ammonium_conc_mgL |-> NaN]

\* a sediment reading of zero, dissolved P above total P (noise), ammonia
\* without Kjeldahl N, no runoff volume
NoisyReadings ==
    [runoff_volume |-> NaN,
     suspended_sediment_load_pounds |-> Zero,
     total_phosphorus_unfiltered_conc_mgL |-> Dec(1, -1),
     total_nitrogen_conc_mgL |-> NaN,
     suspended_sediment_conc_mgL |-> Zero,
     orthophosphate_conc_mgL |-> Dec(3, -1),
     total_Kjeldahl_nitrogen_unfiltered_conc_mgL |-> NaN,
     ammonia_plus_ammonium_conc_mgL |-> Dec(2, -1)]

\* no concentration was measured, the load was
LoadOnly ==
    [runoff_volume |-> Dec(1, 9),
     suspended_sediment_load_pounds |-> Pounds(Num(1000)),
     total_phosphorus_unfiltered_conc_mgL |-> NaN,
     total_nitrogen_conc_mgL |-> NaN,
     suspended_sediment_conc_mgL |-> NaN,
     orthophosphate_conc_mgL |-> NaN,
     total_Kjeldahl_nitrogen_unfiltered_conc_mgL |-> NaN,
     ammonia_plus_ammonium_conc_mgL |-> NaN]

\* total P was measured, orthophosphate was not
PhosphorusOnly ==
    [runoff_volume |-> Dec(1, 9),
     suspended_sediment_load_pounds |-> Zero,
     total_phosphorus_unfiltered_conc_mgL |-> Dec(2, -1),
     total_nitrogen_conc_mgL |-> NaN,
     suspended_sediment_conc_mgL |-> NaN,
     orthophosphate_conc_mgL |-> NaN,
     total_Kjeldahl_nitrogen_unfiltered_conc_mgL |-> NaN,
     ammonia_plus_ammonium_conc_mgL |-> NaN]

MeasurementList ==
    <<AllReadings, SedimentOnly, NitrogenOnly, NoisyReadings, LoadOnly,
      PhosphorusOnly>>

P_conc   == "total_phosphorus_unfiltered_conc_mgL"
N_conc   == "total_nitrogen_conc_mgL"
sed_conc == "suspended_sediment_conc_mgL"
orthophosphate_col == "orthophosphate_conc_mgL"
tkn_col     == "total_Kjeldahl_nitrogen_unfiltered_conc_mgL"
ammonia_col == "ammonia_plus_ammonium_conc_mgL"

\* the columns of the event table that the scripts test for
OptionalCols == {orthophosphate_col, tkn_col, ammonia_col}
ColumnVariants == {OptionalCols, {tkn_col}}

\* an event row as read from the CSV: a column that is not in the file has no cell
EventRow(st, start, m, cols) ==
    [USGS_Station_Number |-> st, storm_start |-> start] @@
    [c \in DOMAIN m |-> IF c \in OptionalCols /\ c \notin cols THEN NaN ELSE m[c]]

\* an event of the model: <<station, index in StartList, index in
\* MeasurementList>>. Events with a timestamp carry any of the measurements
\* (station 1 is the one whose samplers can all fail or return noise, station
\* 2 the one that can lack the orthophosphate analysis); events without a
\* usable timestamp carry a sediment load.
EventKinds ==
    { k \in Stations \X (1..(MaxYear + 2)) \X (1..Len(MeasurementList)) :
        /\ k[2] > MaxYear => MeasurementList[k[3]] = SedimentOnly
        /\ MeasurementList[k[3]] \in {LoadOnly, NoisyReadings} => k[1] = 1
        /\ MeasurementList[k[3]] = PhosphorusOnly => k[1] = 2 }

KindLeq(a, b) ==
    \/ a[1] < b[1]
    \/ a[1] = b[1] /\ a[2] < b[2]
    \/ a[1] = b[1] /\ a[2] = b[2] /\ a[3] <= b[3]

\* event files of 1..MaxEvents rows. Every aggregate of the scripts is a sum, a
\* count or a per-station constant, so one row order per multiset of rows is
\* enumerated.
KindTables ==
    UNION { { f \in [1..k -> EventKinds] :
                \A i \in 1..(k - 1) : KindLeq(f[i], f[i + 1]) }
            : k \in 1..MaxEvents }

EventTable(f, cols) ==
    [i \in 1..Len(f) |->
        EventRow(f[i][1], StartList[f[i][2]], MeasurementList[f[i][3]], cols)]

EventTables(cols) == { EventTable(f, cols) : f \in KindTables }

----------------------------------------------------------------------------
(* Table helpers *)

\* a DataFrame or Series once computed: every row holds its value
AllRows(r) == TRUE
Frame(t) == SelectSeq(t, AllRows)

\* the column f of a table (a sequence of rows)
Col(t, f) == Frame([i \in 1..Len(t) |-> t[i][f]])

\* a missing Year (float NaN in the Year column)
NoYear == 0

\* pd.to_datetime(errors="coerce") followed by .dt.year
ToDatetime(text) ==
    IF text.present /\ text.mo \in 1..12
    THEN [nat |-> FALSE, year |-> text.y]
    ELSE [nat |-> TRUE, year |-> 0]

YearOf(dt) == IF dt.nat THEN NoYear ELSE dt.year

\* CSV cells: a missing value is written as an empty field and read back as NaN
ToCsv(x)   == IF IsNaN(x) THEN [empty |-> TRUE, val |-> Zero]
              ELSE [empty |-> FALSE, val |-> x]
FromCsv(c) == IF c.empty THEN NaN ELSE c.val

----------------------------------------------------------------------------
(* Sediment_out.py *)

Area_ha(acres) == Mul(acres, ACRE_TO_HA)

\* a bug: the difference without the clamp at zero
Particulate_P_conc_unclipped(ev, cols) ==
    IF orthophosphate_col \in cols
    THEN Sub(FillNa(ev[P_conc], Zero), FillNa(ev[orthophosphate_col], Zero))
    ELSE FillNa(ev[P_conc], Zero)

\* section 3.a: total unfiltered P less orthophosphate, clamped at zero
Particulate_P_conc_mgL(ev, cols) ==
    IF orthophosphate_col \in cols
    THEN ClipLower(Sub(FillNa(ev[P_conc], Zero),
                       FillNa(ev[orthophosphate_col], Zero)), Zero)
    ELSE FillNa(ev[P_conc], Zero)

Particulate_N_conc_mgL(ev, cols) ==
    IF tkn_col \in cols /\ ammonia_col \in cols
    THEN ClipLower(Sub(FillNa(ev[tkn_col], Zero),
                       FillNa(ev[ammonia_col], Zero)), Zero)
    ELSE FillNa(ev[N_conc], Zero)

\* sections 2, 3, 3.a and 4: one row of df for one event
ConvertEvent(ev, cols, siteTable) ==
    LET Q == ev.runoff_volume
    IN  [USGS_Station_Number |-> ev.USGS_Station_Number,
         Year |-> YearOf(ToDatetime(ev.storm_start)),
         total_phosphorus_unfiltered_conc_mgL |-> ev[P_conc],
         total_nitrogen_conc_mgL |-> ev[N_conc],
         suspended_sediment_conc_mgL |-> ev[sed_conc],
         Sediment_load_kg |-> Mul(ev.suspended_sediment_load_pounds, LB_TO_KG),
         P_mass_kg |-> Div(Mul(ev[P_conc], Q), MG_PER_KG),
         N_mass_kg |-> Div(Mul(ev[N_conc], Q), MG_PER_KG),
         Particulate_P_conc_mgL |-> Particulate_P_conc_mgL(ev, cols),
         Particulate_N_conc_mgL |-> Particulate_N_conc_mgL(ev, cols),
         Particulate_P_mass_kg |->
             Div(Mul(Particulate_P_conc_mgL(ev, cols), Q), MG_PER_KG),
         Particulate_N_mass_kg |->
             Div(Mul(Particulate_N_conc_mgL(ev, cols), Q), MG_PER_KG),
         Area_ha |-> IF ev.USGS_Station_Number \in DOMAIN siteTable
                     THEN Area_ha(siteTable[ev.USGS_Station_Number])
                     ELSE NaN]

MergedEvents(evs, cols, siteTable) ==
    Frame([i \in 1..Len(evs) |-> ConvertEvent(evs[i], cols, siteTable)])

\* the rows of one groupby group; rows with a missing key are in no group
Group(df, st, y) ==
    LET InGroup(r) == r.USGS_Station_Number = st /\ r.Year = y /\ y # NoYear
    IN  SelectSeq(df, InGroup)

\* the group keys in groupby order: station, then year
AllKeys ==
    [i \in 1..(MaxStation * MaxYear) |->
        <<((i - 1) \div MaxYear) + 1, ((i - 1) % MaxYear) + 1>>]

GroupKeys(df) ==
    LET Occurs(k) == Group(df, k[1], k[2]) # <<>>
    IN  SelectSeq(AllKeys, Occurs)

\* a bug: one combined flag, true when any of the three readings is present
ValidFlagCombined(g, conc) ==
    \E c \in {P_conc, N_conc, sed_conc} : CountNotNa(Col(g, c)) > 0

\* section 5.1: count() > 0 of the concentration column in the group
ValidFlag(g, conc) == CountNotNa(Col(g, conc)) > 0

\* sections 5 and 5.1: one station-year row
StationYearRow(df, st, y) ==
    LET g == Group(df, st, y)
    IN  [USGS_Station_Number |-> st,
         Year |-> y,
         Sediment_load_kg |-> SumSkipNa(Col(g, "Sediment_load_kg")),
         P_mass_kg |-> SumSkipNa(Col(g, "P_mass_kg")),
         N_mass_kg |-> SumSkipNa(Col(g, "N_mass_kg")),
         Particulate_P_mass_kg |-> SumSkipNa(Col(g, "Particulate_P_mass_kg")),
         Particulate_N_mass_kg |-> SumSkipNa(Col(g, "Particulate_N_mass_kg")),
         Area_ha |-> FirstNotNa(Col(g, "Area_ha")),
         Valid_P |-> ValidFlag(g, P_conc),
         Valid_N |-> ValidFlag(g, N_conc),
         Valid_Sed |-> ValidFlag(g, sed_conc)]

StationYearTable(df) ==
    LET keys == GroupKeys(df)
    IN  Frame([i \in 1..Len(keys) |-> StationYearRow(df, keys[i][1], keys[i][2])])

\* a bug: a year without a valid station-year is dropped
YearListOfValid(ann) ==
    LET Occurs(y) == \E i \in 1..Len(ann) :
                        /\ ann[i].Year = y
                        /\ (ann[i].Valid_Sed \/ ann[i].Valid_N \/ ann[i].Valid_P)
    IN  SelectSeq([y \in 1..MaxYear |-> y], Occurs)

\* section 6: sorted(annual["Year"].unique())
YearList(ann) ==
    LET Occurs(y) == \E i \in 1..Len(ann) : ann[i].Year = y
    IN  SelectSeq([y \in 1..MaxYear |-> y], Occurs)

\* a bug: the rows of the year whatever their flag (one shared area)
ValidRowsShared(sub, flag) == sub

\* sub[sub["Valid_X"]]: the rows of the year that are valid for one parameter
ValidRows(sub, flag) ==
    LET IsValid(r) == r[flag]
    IN  SelectSeq(sub, IsValid)

eff_area(sub) == SumSkipNa(Col(sub, "Area_ha"))

per_ha(total, area) == IF Gt(area, Zero) THEN Div(total, area) ELSE NaN

\* section 6: the row of one year
RegionRow(ann, y) ==
    LET IsYear(r) == r.Year = y
        sub       == SelectSeq(ann, IsYear)
        sub_sed   == ValidRows(sub, "Valid_Sed")
        sub_N     == ValidRows(sub, "Valid_N")
        sub_P     == ValidRows(sub, "Valid_P")
        eff_area_sed == eff_area(sub_sed)
        total_sed    == SumSkipNa(Col(sub_sed, "Sediment_load_kg"))
        eff_area_N   == eff_area(sub_N)
        total_N      == SumSkipNa(Col(sub_N, "N_mass_kg"))
        eff_area_P   == eff_area(sub_P)
        total_P      == SumSkipNa(Col(sub_P, "P_mass_kg"))
    IN  [Year |-> y,
         Effective_Area_ha |-> eff_area_sed,
         Effective_Area_N_ha |-> eff_area_N,
         Effective_Area_P_ha |-> eff_area_P,
         Total_Sediment_kg |-> total_sed,
         Total_N_kg |-> total_N,
         Total_P_kg |-> total_P,
         Particulate_P_kg |-> SumSkipNa(Col(sub_P, "Particulate_P_mass_kg")),
         Particulate_N_kg |-> SumSkipNa(Col(sub_N, "Particulate_N_mass_kg")),
         Sediment_kg_ha_yr |-> per_ha(total_sed, eff_area_sed),
         N_kg_ha_yr |-> per_ha(total_N, eff_area_N),
         P_kg_ha_yr |-> per_ha(total_P, eff_area_P)]

\* a bug: the ratio without the guard on the sediment total
GradeUnguarded(particulate, total_sed) ==
    Mul(Div(particulate, total_sed), G_PER_KG)

\* section 6.a: np.where(Total_Sediment_kg > 0, particulate / total * 1000, nan)
Grade(particulate, total_sed) ==
    IF Gt(total_sed, Zero)
    THEN Mul(Div(particulate, total_sed), G_PER_KG)
    ELSE NaN

\* grade * dose (g/ha), then / 1000 (kg/ha)
Recovered_per_ha_20t(grade) == Div(Mul(grade, dose_kg_per_ha), G_PER_KG)

\* np.where(Effective_Area_ha > 0, particulate / Effective_Area_ha, nan)
Particulate_kg_ha_yr(particulate, area) ==
    IF Gt(area, Zero) THEN Div(particulate, area) ELSE NaN

WithGrade(r) ==
    LET gP == Grade(r.Particulate_P_kg, r.Total_Sediment_kg)
        gN == Grade(r.Particulate_N_kg, r.Total_Sediment_kg)
    IN  r @@
        [gP_per_kg_sediment |-> gP,
         gN_per_kg_sediment |-> gN,
         kgP_recovered_per_ha_20t |-> Recovered_per_ha_20t(gP),
         kgN_recovered_per_ha_20t |-> Recovered_per_ha_20t(gN),
         Particulate_P_kg_ha_yr |->
             Particulate_kg_ha_yr(r.Particulate_P_kg, r.Effective_Area_ha),
         Particulate_N_kg_ha_yr |->
             Particulate_kg_ha_yr(r.Particulate_N_kg, r.Effective_Area_ha)]

RegionTable(ann) ==
    LET years == YearList(ann)
    IN  Frame([i \in 1..Len(years) |-> WithGrade(RegionRow(ann, years[i]))])

\* DataFrame.to_csv / pd.read_csv of a table of float columns keyed by Year
WriteCsv(t) ==
    Frame([i \in 1..Len(t) |->
        [c \in DOMAIN t[i] |-> IF c = "Year" THEN t[i][c] ELSE ToCsv(t[i][c])]])
ReadCsv(f) ==
    Frame([i \in 1..Len(f) |->
        [c \in DOMAIN f[i] |-> IF c = "Year" THEN f[i][c] ELSE FromCsv(f[i][c])]])

----------------------------------------------------------------------------
(* Sediment_Use.py *)

\* a bug: a zero total treated like a zero denominator of a yield (undefined)
ReuseAreaNullAtZero(total_sediment_kg) ==
    IF Gt(total_sediment_kg, Zero) THEN Div(total_sediment_kg, DOSE_KG_PER_HA) ELSE NaN

\* Total_Sediment_kg / DOSE_KG_PER_HA, then fillna(0)
ReuseArea_20t_ha(total_sediment_kg) ==
    FillNa(Div(total_sediment_kg, DOSE_KG_PER_HA), Zero)

ReuseRow(r) ==
    [Year |-> r.Year,
     Total_Sediment_kg |-> r.Total_Sediment_kg,
     ReuseArea_20t_ha |-> ReuseArea_20t_ha(r.Total_Sediment_kg),
     kgP_recovered_per_ha_20t |-> r.kgP_recovered_per_ha_20t,
     kgN_recovered_per_ha_20t |-> r.kgN_recovered_per_ha_20t]

ReuseTable(yields) == Frame([i \in 1..Len(yields) |-> ReuseRow(yields[i])])

----------------------------------------------------------------------------
(* economic_value.py *)

price_N == Dec(189, -2)
price_P == Dec(537, -2)
fert_N_need == Num(150)
fert_P_need == Num(22)
cost_per_ha == Add(Mul(fert_N_need, price_N), Mul(fert_P_need, price_P))
recovery_efficiency == Dec(8, -1)
availability_N == Dec(5, -1)
availability_P == Dec(8, -1)

\* pd.merge(yields, reuse[["Year", "ReuseArea_20t_ha"]], on="Year", how="left")
\* followed by fillna(0)
MergedReuseArea(reuse, y) ==
    LET IsYear(r) == r.Year = y
        hit == SelectSeq(reuse, IsYear)
    IN  FillNa(IF hit = <<>> THEN NaN ELSE hit[1].ReuseArea_20t_ha, Zero)

\* section 4: the recovered-per-hectare column when the file has it, else
\* particulate mass over the reuse area with 0 replaced by NaN
Applied_kg_per_ha(r, recovered_col, particulate_col, reuse_area) ==
    IF "kgN_recovered_per_ha_20t" \in DOMAIN r /\ "kgP_recovered_per_ha_20t" \in DOMAIN r
    THEN FillNa(r[recovered_col], Zero)
    ELSE Div(r[particulate_col], IF reuse_area = Zero THEN NaN ELSE reuse_area)

\* a bug: the processing recovery efficiency left out
UsableWithoutRecovery(applied, availability) ==
    ClipLower(Mul(applied, availability), Zero)

Usable_kg_per_ha(applied, availability) ==
    ClipLower(Mul(Mul(applied, recovery_efficiency), availability), Zero)

\* a bug: the ratio without the clamp to [0, 1]
PercentUnclamped(usable, need) == Div(usable, need)

Percent_saved(usable, need) == Clip(Div(usable, need), Zero, Num(1))

\* a bug: the larger of the two percents taken as the limiting one
PercentOfLarger(pN, pP) == IF Lt(pN, pP) THEN pP ELSE pN

\* section 6: the row minimum of the two percents
Percent_saved_total(pN, pP) == RowMin(pN, pP)

\* a bug: Method A priced with the N fertilizer cost alone
LimitingAtNitrogenCost(pct_total) == Mul(pct_total, Mul(fert_N_need, price_N))

Cost_reduction_per_ha_limiting(pct_total) == Mul(pct_total, cost_per_ha)

Cost_reduction_total_USD_limiting(per_ha_limiting, reuse_area) ==
    Mul(per_ha_limiting, reuse_area)

Saving_USD_per_ha(usable, need, price) == Mul(ClipUpper(usable, need), price)

Cost_reduction_per_ha(n_saving, p_saving) == Add(n_saving, p_saving)

Cost_reduction_total_USD(saving_per_ha, reuse_area) ==
    Mul(saving_per_ha, reuse_area)

EconRow(r, reuse) ==
    LET area  == MergedReuseArea(reuse, r.Year)
        nApp  == Applied_kg_per_ha(r, "kgN_recovered_per_ha_20t", "Particulate_N_kg", area)
        pApp  == Applied_kg_per_ha(r, "kgP_recovered_per_ha_20t", "Particulate_P_kg", area)
        nUse  == Usable_kg_per_ha(nApp, availability_N)
        pUse  == Usable_kg_per_ha(pApp, availability_P)
        pctN  == Percent_saved(nUse, fert_N_need)
        pctP  == Percent_saved(pUse, fert_P_need)
        pctT  == Percent_saved_total(pctN, pctP)
        limHa == Cost_reduction_per_ha_limiting(pctT)
        nSave == Saving_USD_per_ha(nUse, fert_N_need, price_N)
        pSave == Saving_USD_per_ha(pUse, fert_P_need, price_P)
        perHa == Cost_reduction_per_ha(nSave, pSave)
    IN  r @@
        [ReuseArea_20t_ha |-> area,
         N_applied_kg_per_ha |-> nApp,
         P_applied_kg_per_ha |-> pApp,
         N_usable_kg_per_ha |-> nUse,
         P_usable_kg_per_ha |-> pUse,
         Percent_saved_N |-> pctN,
         Percent_saved_P |-> pctP,
         Percent_saved_total |-> pctT,
         Cost_reduction_per_ha_limiting |-> limHa,
         Cost_reduction_total_USD_limiting |->
             Cost_reduction_total_USD_limiting(limHa, area),
         N_saving_USD_per_ha |-> nSave,
         P_saving_USD_per_ha |-> pSave,
         Cost_reduction_per_ha |-> perHa,
         Cost_reduction_total_USD |-> Cost_reduction_total_USD(perHa, area)]

EconTable(yields, reuse) ==
    Frame([i \in 1..Len(yields) |-> EconRow(yields[i], reuse)])

----------------------------------------------------------------------------
(* Site_Specific_Analysis.py *)

PRICE_N == Dec(189, -2)
PRICE_P == Dec(537, -2)
FERT_N_NEED == Num(150)
FERT_P_NEED == Num(22)
AVAIL_N == Dec(4, -1)
AVAIL_P == Dec(8, -1)
PHYSICAL_LIMIT_KG == Num(100000)
MIN_SITE_LOAD_KG == Num(100)

\* sections 1 and 2: the derived columns of one event
SiteEvent(ev, cols) ==
    LET Q  == ev.runoff_volume
        dt == ToDatetime(ev.storm_start)
    IN  [USGS_Station_Number |-> ev.USGS_Station_Number,
         storm_start |-> dt,
         Year |-> YearOf(dt),
         Sediment_load_kg |-> Mul(ev.suspended_sediment_load_pounds, LB_TO_KG),
         Particulate_P_mass_kg |->
             Div(Mul(Particulate_P_conc_mgL(ev, cols), Q), MG_PER_KG),
         Particulate_N_mass_kg |->
             Div(Mul(Particulate_N_conc_mgL(ev, cols), Q), MG_PER_KG)]

\* the rows of one station: groupby("USGS_Station_Number")
SiteGroup(evs, st) ==
    LET InGroup(r) == r.USGS_Station_Number = st
    IN  SelectSeq(evs, InGroup)

\* "storm_start": "count" -- the timestamps that are not NaT
Event_Count(g) == Cardinality({i \in 1..Len(g) : ~g[i].storm_start.nat})

\* "Year": "nunique" -- the distinct years, a missing year not counted
Years_Monitored(g) == Cardinality({g[i].Year : i \in 1..Len(g)} \ {NoYear})

\* section 3: the aggregated row of one station
SiteAgg(evs, st) ==
    LET g == SiteGroup(evs, st)
    IN  [USGS_Station_Number |-> st,
         Sediment_load_kg |-> SumSkipNa(Col(g, "Sediment_load_kg")),
         Particulate_P_mass_kg |-> SumSkipNa(Col(g, "Particulate_P_mass_kg")),
         Particulate_N_mass_kg |-> SumSkipNa(Col(g, "Particulate_N_mass_kg")),
         Event_Count |-> Event_Count(g),
         Years_Monitored |-> Years_Monitored(g)]

Grade_g_kg(particulate, sediment) == Mul(Div(particulate, sediment), G_PER_KG)

Max_Allowed_Dose_kg_ha(effective_P) ==
    IF Gt(effective_P, Zero) THEN Div(FERT_P_NEED, effective_P) ELSE Zero

\* a bug: the P-limited dose without the physical limit
DoseWithoutLimit(max_dose) == max_dose

\* step C: clip(upper=PHYSICAL_LIMIT_KG)
Optimized_Dose_kg_ha(max_dose) == ClipUpper(max_dose, PHYSICAL_LIMIT_KG)

Potential_Reuse_Area_ha(avg_load, dose) ==
    IF Gt(dose, Zero) THEN Div(avg_load, dose) ELSE Zero

\* sections 3 (average load), 4 and 5: the derived columns of a retained site
SiteEconomics(a) ==
    LET avg   == Div(a.Sediment_load_kg, Num(a.Years_Monitored))
        gN    == Grade_g_kg(a.Particulate_N_mass_kg, a.Sediment_load_kg)
        gP    == Grade_g_kg(a.Particulate_P_mass_kg, a.Sediment_load_kg)
        effP  == Mul(Div(gP, G_PER_KG), AVAIL_P)
        maxD  == Max_Allowed_Dose_kg_ha(effP)
        dose  == Optimized_Dose_kg_ha(maxD)
        nAv   == Mul(Mul(Div(gN, G_PER_KG), dose), AVAIL_N)
        pAv   == Mul(Mul(Div(gP, G_PER_KG), dose), AVAIL_P)
        vN    == Mul(ClipUpper(nAv, FERT_N_NEED), PRICE_N)
        vP    == Mul(ClipUpper(pAv, FERT_P_NEED), PRICE_P)
    IN  a @@
        [Avg_Annual_Load_kg |-> avg,
         Grade_N_g_kg |-> gN,
         Grade_P_g_kg |-> gP,
         Effective_P_content |-> effP,
         Max_Allowed_Dose_kg_ha |-> maxD,
         Optimized_Dose_kg_ha |-> dose,
         Potential_Reuse_Area_ha |-> Potential_Reuse_Area_ha(avg, dose),
         N_Available_kg_ha |-> nAv,
         P_Available_kg_ha |-> pAv,
         Value_N_USD_ha |-> vN,
         Value_P_USD_ha |-> vP,
         Total_Value_USD_ha |-> Add(vN, vP)]

\* the stations of the event table in groupby order, and those kept by the
\* filter Sediment_load_kg > 100
SiteList(evs) ==
    LET Occurs(st) == SiteGroup(evs, st) # <<>>
    IN  SelectSeq([st \in 1..MaxStation |-> st], Occurs)

RetainedSites(evs) ==
    LET Kept(st) == Gt(SiteAgg(evs, st).Sediment_load_kg, MIN_SITE_LOAD_KG)
    IN  SelectSeq(SiteList(evs), Kept)

\* site_stats before sorting
SiteTable(evs) ==
    LET kept == RetainedSites(evs)
    IN  Frame([i \in 1..Len(kept) |-> SiteEconomics(SiteAgg(evs, kept[i]))])

\* sort_values("Total_Value_USD_ha", ascending=False): the order of rows with
\* equal values is not determined by the sort
IsSortedDesc(t) ==
    \A i \in 1..(Len(t) - 1) :
        ~Lt(t[i].Total_Value_USD_ha, t[i + 1].Total_Value_USD_ha)

Orderings(t) ==
    { [i \in 1..Len(t) |-> t[p[i]]] :
        p \in {q \in [1..Len(t) -> 1..Len(t)] :
                 \A i, j \in 1..Len(t) : i # j => q[i] # q[j]} }

SortedOrderings(t) == {s \in Orderings(t) : IsSortedDesc(s)}

WithRank(t) == [i \in 1..Len(t) |-> t[i] @@ [Rank |-> i]]

----------------------------------------------------------------------------
(* State: the input files, what each script has computed, the output files *)

VARIABLES
    events,         \* RAW/All_EOF_StormEventLoadsRainCalculated.csv
    sites,          \* RAW/EOF_Site_Table.csv: station -> Area (acres)
    columns,        \* the optional columns present in the event file
    run,            \* per script: "no", "done" or "failed"
    df,             \* Sediment_out.py: the event table with its derived columns
    annual,         \* Sediment_out.py: the station-year table
    yields_csv,     \* Output/Annual_Region_Yields.csv
    reuse_csv,      \* Output/Annual_Region_Reuse_Potential.csv
    econ,           \* economic_value.py: Output/Annual_Region_Econ_Value.csv
    site_stats      \* Site_Specific_Analysis.py: Output/Site_Specific_Economics.csv

vars == <<events, sites, columns, run, df, annual,
          yields_csv, reuse_csv, econ, site_stats>>

Scripts == {"Sediment_out", "Sediment_Use", "economic_value", "Site_Specific_Analysis"}

Init ==
    /\ columns \in ColumnVariants
    /\ sites \in SiteTables
    /\ events \in EventTables(columns)
    /\ run = [s \in Scripts |-> "no"]
    /\ df = <<>>
    /\ annual = <<>>
    /\ yields_csv = <<>>
    /\ reuse_csv = <<>>
    /\ econ = <<>>
    /\ site_stats = <<>>

\* Sediment_out.py, sections 1 to 6.a: the frames the script builds
Sediment_out(evs, cols, siteTable) ==
    LET merged == MergedEvents(evs, cols, siteTable)
        ann    == StationYearTable(merged)
    IN  [df |-> merged, annual |-> ann, annual_region |-> RegionTable(ann)]

\* Sediment_out.py. With no station-year group the regional frame has no
\* columns and section 6.a raises KeyError before anything is written.
RunSedimentOut ==
    /\ run["Sediment_out"] = "no"
    /\ \E out \in {Sediment_out(events, columns, sites)} :
           /\ df' = out.df
           /\ annual' = out.annual
           /\ IF out.annual_region = <<>>
              THEN /\ run' = [run EXCEPT !["Sediment_out"] = "failed"]
                   /\ yields_csv' = yields_csv
              ELSE /\ run' = [run EXCEPT !["Sediment_out"] = "done"]
                   /\ yields_csv' = WriteCsv(out.annual_region)
    /\ UNCHANGED <<events, sites, columns, reuse_csv, econ, site_stats>>

\* Sediment_Use.py: needs Output/Annual_Region_Yields.csv
RunSedimentUse ==
    /\ run["Sediment_out"] = "done"
    /\ run["Sediment_Use"] = "no"
    /\ reuse_csv' = WriteCsv(ReuseTable(ReadCsv(yields_csv)))
    /\ run' = [run EXCEPT !["Sediment_Use"] = "done"]
    /\ UNCHANGED <<events, sites, columns, df, annual,
                   yields_csv, econ, site_stats>>

\* economic_value.py: needs both output files
RunEconomicValue ==
    /\ run["Sediment_Use"] = "done"
    /\ run["economic_value"] = "no"
    /\ econ' = EconTable(ReadCsv(yields_csv), ReadCsv(reuse_csv))
    /\ run' = [run EXCEPT !["economic_value"] = "done"]
    /\ UNCHANGED <<events, sites, columns, df, annual,
                   yields_csv, reuse_csv, site_stats>>

\* Site_Specific_Analysis.py: reads the event file only
RunSiteSpecific ==
    /\ run["Site_Specific_Analysis"] = "no"
    /\ LET evs == Frame([i \in 1..Len(events) |-> SiteEvent(events[i], columns)])
       IN  \E sorted \in SortedOrderings(SiteTable(evs)) :
               site_stats' = WithRank(sorted)
    /\ run' = [run EXCEPT !["Site_Specific_Analysis"] = "done"]
    /\ UNCHANGED <<events, sites, columns, df, annual,
                   yields_csv, reuse_csv, econ>>

\* The regional pipeline: the three scripts that pass tables through Output/
Next ==
    \/ RunSedimentOut
    \/ RunSedimentUse
    \/ RunEconomicValue

Spec == Init /\ [][Next]_vars

\* The site ranking: a separate program over the same event file
NextSite == RunSiteSpecific

SpecSite == Init /\ [][NextSite]_vars

----------------------------------------------------------------------------
(* Properties *)

Ran(script) == run[script] = "done"

\* the regional table as the downstream scripts read it
Region == ReadCsv(yields_csv)

\* the sum of f over the finite set S
RECURSIVE SumFn(_, _)
SumFn(f, S) ==
    IF S = {} THEN Zero
    ELSE LET x == CHOOSE x \in S : TRUE
         IN  Add(f[x], SumFn(f, S \ {x}))

\* the station-year rows of year y whose flag is set, and a column summed
\* over such a set of rows
FlaggedRows(y, flag) ==
    {i \in 1..Len(annual) : annual[i].Year = y /\ annual[i][flag]}
TotalOver(S, col) == SumFn([i \in S |-> annual[i][col]], S)

RatioOrNull(mass, area) == IF Gt(area, Zero) THEN Div(mass, area) ELSE NaN

\* C1: for every year and each of sediment, total N and total P, the regional
\* per-hectare yield is the mass summed over the station-years valid for that
\* parameter divided by the area summed over exactly those station-years
\* (undefined when that area is zero); a station-year valid only for another
\* parameter adds neither mass nor area.
C1_YieldUsesOwnValidArea ==
    Ran("Sediment_out") =>
        \A k \in 1..Len(Region) :
            LET r == Region[k]
                S == FlaggedRows(r.Year, "Valid_Sed")
                N == FlaggedRows(r.Year, "Valid_N")
                P == FlaggedRows(r.Year, "Valid_P")
            IN  /\ r.Sediment_kg_ha_yr =
                     RatioOrNull(TotalOver(S, "Sediment_load_kg"), TotalOver(S, "Area_ha"))
                /\ r.N_kg_ha_yr =
                     RatioOrNull(TotalOver(N, "N_mass_kg"), TotalOver(N, "Area_ha"))
                /\ r.P_kg_ha_yr =
                     RatioOrNull(TotalOver(P, "P_mass_kg"), TotalOver(P, "Area_ha"))

\* a year with one station valid only for sediment and another valid only for
\* N: each yield is that station's mass over that station's own area
C1_Witness ==
    /\ Ran("Sediment_out")
    /\ \E k \in 1..Len(Region) : \E i, j \in 1..Len(annual) :
         LET r == Region[k] a == annual[i] b == annual[j]
         IN  /\ a.Year = r.Year /\ b.Year = r.Year
             /\ a.Valid_Sed /\ ~a.Valid_N /\ ~a.Valid_P
             /\ b.Valid_N /\ ~b.Valid_Sed /\ ~b.Valid_P
             /\ Gt(a.Sediment_load_kg, Zero) /\ Gt(b.N_mass_kg, Zero)
             /\ r.Sediment_kg_ha_yr = Div(a.Sediment_load_kg, a.Area_ha)
             /\ r.N_kg_ha_yr = Div(b.N_mass_kg, b.Area_ha)
             /\ r.Effective_Area_ha # Add(a.Area_ha, b.Area_ha)

\* the events of one (station, year) group, by their index in the event file
GroupEvents(st, y) ==
    {i \in 1..Len(events) :
        /\ events[i].USGS_Station_Number = st
        /\ ~ToDatetime(events[i].storm_start).nat
        /\ ToDatetime(events[i].storm_start).year = y}

HasReading(st, y, conc) == \E i \in GroupEvents(st, y) : ~IsNaN(events[i][conc])

\* C2: for every station-year row and each of sediment, N and P, the validity
\* flag is a boolean that is true exactly when some event of the group has a
\* reading (possibly 0) in that parameter's concentration column; the three
\* flags are set independently.
C2_ValidityPerParameter ==
    run["Sediment_out"] # "no" =>
        \A k \in 1..Len(annual) :
            LET a == annual[k]
                st == a.USGS_Station_Number
            IN  /\ a.Valid_Sed \in BOOLEAN /\ a.Valid_N \in BOOLEAN /\ a.Valid_P \in BOOLEAN
                /\ a.Valid_Sed = HasReading(st, a.Year, sed_conc)
                /\ a.Valid_N = HasReading(st, a.Year, N_conc)
                /\ a.Valid_P = HasReading(st, a.Year, P_conc)

\* a group whose events have a sediment reading but no N or P reading
C2_Witness ==
    /\ run["Sediment_out"] # "no"
    /\ \E k \in 1..Len(annual) :
         /\ annual[k].Valid_Sed /\ ~annual[k].Valid_N /\ ~annual[k].Valid_P
         /\ HasReading(annual[k].USGS_Station_Number, annual[k].Year, sed_conc)
         /\ ~HasReading(annual[k].USGS_Station_Number, annual[k].Year, N_conc)
         /\ ~HasReading(annual[k].USGS_Station_Number, annual[k].Year, P_conc)

\* C3: no stage after the regional aggregation turns an undefined value into
\* zero: a year whose recovered-per-hectare values are undefined in the
\* regional table keeps undefined applied, usable and percent-replaced values
\* in the economic valuation.
C3_NullsNotCoerced ==
    Ran("economic_value") =>
        \A k \in 1..Len(econ) :
            LET r == econ[k]
            IN  /\ IsNaN(r.kgN_recovered_per_ha_20t) =>
                     /\ IsNaN(r.N_applied_kg_per_ha)
                     /\ IsNaN(r.N_usable_kg_per_ha)
                     /\ IsNaN(r.Percent_saved_N)
                /\ IsNaN(r.kgP_recovered_per_ha_20t) =>
                     /\ IsNaN(r.P_applied_kg_per_ha)
                     /\ IsNaN(r.P_usable_kg_per_ha)
                     /\ IsNaN(r.Percent_saved_P)

\* C4: for every regional year, the N and P grade is particulate mass * 1000 /
\* total sediment mass when the total is above zero and undefined when the
\* total is zero, whatever the particulate mass; it is never zero-filled and
\* never infinite. The recovered-per-hectare value is grade * 20000 / 1000 and
\* is undefined exactly when the grade is.
GradeOf(particulate, total) ==
    IF Gt(total, Zero) THEN Div(Mul(particulate, Num(1000)), total) ELSE NaN

AtDose20t(grade) == IF IsNaN(grade) THEN NaN ELSE Mul(grade, Num(20))

C4_GradeUndefinedAtZeroSediment ==
    Ran("Sediment_out") =>
        \A k \in 1..Len(Region) :
            LET r == Region[k]
            IN  /\ r.gN_per_kg_sediment = GradeOf(r.Particulate_N_kg, r.Total_Sediment_kg)
                /\ r.gP_per_kg_sediment = GradeOf(r.Particulate_P_kg, r.Total_Sediment_kg)
                /\ r.Total_Sediment_kg = Zero =>
                     IsNaN(r.gN_per_kg_sediment) /\ IsNaN(r.gP_per_kg_sediment)
                /\ Gt(r.Total_Sediment_kg, Zero) =>
                     IsFinite(r.gN_per_kg_sediment) /\ IsFinite(r.gP_per_kg_sediment)
                /\ r.kgN_recovered_per_ha_20t = AtDose20t(r.gN_per_kg_sediment)
                /\ r.kgP_recovered_per_ha_20t = AtDose20t(r.gP_per_kg_sediment)
                /\ IsNaN(r.kgN_recovered_per_ha_20t) <=> IsNaN(r.gN_per_kg_sediment)
                /\ IsNaN(r.kgP_recovered_per_ha_20t) <=> IsNaN(r.gP_per_kg_sediment)

\* a year with particulate N but no sediment: the grade is undefined; and a
\* year with sediment, whose grade is defined
C4_Witness ==
    /\ Ran("Sediment_out")
    /\ \E k \in 1..Len(Region) :
         /\ Region[k].Total_Sediment_kg = Zero
         /\ Gt(Region[k].Particulate_N_kg, Zero)
         /\ IsNaN(Region[k].gN_per_kg_sediment)
         /\ IsNaN(Region[k].kgN_recovered_per_ha_20t)
    /\ \E k \in 1..Len(Region) :
         /\ Gt(Region[k].Total_Sediment_kg, Zero)
         /\ Gt(Region[k].gN_per_kg_sediment, Zero)

\* C5: for every year the reuse area at the 20 t/ha dose is total sediment
\* mass / 20000, and it is exactly 0, never undefined, when the total sediment
\* mass is zero or missing; the valuation reads the same area.
ReuseAreaOf(total) ==
    IF IsNaN(total) \/ total = Zero THEN Zero ELSE Mul(total, Dec(5, -5))

Reuse == ReadCsv(reuse_csv)

C5_ReuseAreaZeroNotUndefined ==
    /\ Ran("Sediment_Use") =>
         /\ Len(Reuse) = Len(Region)
         /\ \A k \in 1..Len(Reuse) :
              /\ Reuse[k].Year = Region[k].Year
              /\ Reuse[k].ReuseArea_20t_ha = ReuseAreaOf(Region[k].Total_Sediment_kg)
              /\ ~IsNaN(Reuse[k].ReuseArea_20t_ha)
    /\ Ran("economic_value") =>
         \A k \in 1..Len(econ) :
              /\ econ[k].ReuseArea_20t_ha = ReuseAreaOf(econ[k].Total_Sediment_kg)
              /\ ~IsNaN(econ[k].ReuseArea_20t_ha)

\* a year without sediment: reuse area 0 where the grade is undefined; and a
\* year with sediment, whose reuse area is positive
C5_Witness ==
    /\ Ran("economic_value")
    /\ \E k \in 1..Len(econ) :
         /\ econ[k].Total_Sediment_kg = Zero
         /\ econ[k].ReuseArea_20t_ha = Zero
         /\ IsNaN(econ[k].gN_per_kg_sediment)
    /\ \E k \in 1..Len(econ) : Gt(econ[k].ReuseArea_20t_ha, Zero)

\* C6: applied N (P) per hectare of every year is the grade-derived
\* recovered-per-hectare value when that value is available; only when it is
\* unavailable is it particulate mass / reuse area, which is undefined (not
\* zero) for a year with reuse area zero.
AppliedOf(recovered, particulate, reuse_area) ==
    IF ~IsNaN(recovered) THEN recovered
    ELSE IF reuse_area = Zero THEN NaN
    ELSE Div(particulate, reuse_area)

C6_AppliedFromGrade ==
    Ran("economic_value") =>
        \A k \in 1..Len(econ) :
            LET r == econ[k]
            IN  /\ r.N_applied_kg_per_ha =
                     AppliedOf(r.kgN_recovered_per_ha_20t, r.Particulate_N_kg,
                               r.ReuseArea_20t_ha)
                /\ r.P_applied_kg_per_ha =
                     AppliedOf(r.kgP_recovered_per_ha_20t, r.Particulate_P_kg,
                               r.ReuseArea_20t_ha)

\* C7: for every year Method A total = limiting percent * (N demand * N price
\* + P demand * P price) * reuse area and Method B total = (min(usable N, N
\* demand) * N price + min(usable P, P demand) * P price) * reuse area, both
\* from the same usable values and reuse area, both columns of the output.
MinOf(a, b) == IF Lt(b, a) THEN b ELSE a

C7_MethodAOf(r) ==
    Mul(Mul(r.Percent_saved_total,
            Add(Mul(Num(150), Dec(189, -2)), Mul(Num(22), Dec(537, -2)))),
        r.ReuseArea_20t_ha)

C7_MethodBOf(r) ==
    Mul(Add(Mul(MinOf(r.N_usable_kg_per_ha, Num(150)), Dec(189, -2)),
            Mul(MinOf(r.P_usable_kg_per_ha, Num(22)), Dec(537, -2))),
        r.ReuseArea_20t_ha)

C7_BothMethods ==
    Ran("economic_value") =>
        \A k \in 1..Len(econ) :
            /\ {"Cost_reduction_total_USD_limiting", "Cost_reduction_total_USD"}
                 \subseteq DOMAIN econ[k]
            /\ econ[k].Cost_reduction_total_USD_limiting = C7_MethodAOf(econ[k])
            /\ econ[k].Cost_reduction_total_USD = C7_MethodBOf(econ[k])

\* a year in which both totals are positive and differ
C7_Witness ==
    /\ Ran("economic_value")
    /\ \E k \in 1..Len(econ) :
         /\ Gt(econ[k].ReuseArea_20t_ha, Zero)
         /\ Gt(econ[k].Cost_reduction_total_USD_limiting, Zero)
         /\ Gt(econ[k].Cost_reduction_total_USD, econ[k].Cost_reduction_total_USD_limiting)

\* C8: in every valuation row usable N and P are applied * recovery
\* efficiency * availability floored at 0; the percent of demand replaced is
\* usable / demand clamped to [0, 1]; the limiting percent is the minimum of
\* the two; so 0 <= limiting <= each percent <= 1.
FloorAtZero(x) == IF Lt(x, Zero) THEN Zero ELSE x
ClampUnit(x)   == IF Lt(x, Zero) THEN Zero ELSE IF Gt(x, Num(1)) THEN Num(1) ELSE x

C8_UsableAndPercents ==
    Ran("economic_value") =>
        \A k \in 1..Len(econ) :
            LET r == econ[k]
            IN  /\ r.N_usable_kg_per_ha =
                     FloorAtZero(Mul(r.N_applied_kg_per_ha, Dec(4, -1)))
                /\ r.P_usable_kg_per_ha =
                     FloorAtZero(Mul(r.P_applied_kg_per_ha, Dec(64, -2)))
                /\ Le(Zero, r.N_usable_kg_per_ha) /\ Le(Zero, r.P_usable_kg_per_ha)
                /\ r.Percent_saved_N = ClampUnit(Div(r.N_usable_kg_per_ha, Num(150)))
                /\ r.Percent_saved_P = ClampUnit(Div(r.P_usable_kg_per_ha, Num(22)))
                /\ r.Percent_saved_total = MinOf(r.Percent_saved_N, r.Percent_saved_P)
                /\ Le(Zero, r.Percent_saved_total)
                /\ Le(r.Percent_saved_total, r.Percent_saved_N)
                /\ Le(r.Percent_saved_total, r.Percent_saved_P)
                /\ Le(r.Percent_saved_N, Num(1)) /\ Le(r.Percent_saved_P, Num(1))

\* a year whose N ratio is above 1 and is clamped to 1, with P limiting
C8_Witness ==
    /\ Ran("economic_value")
    /\ \E k \in 1..Len(econ) :
         /\ Gt(econ[k].N_applied_kg_per_ha, Zero)
         /\ Gt(Div(econ[k].N_usable_kg_per_ha, Num(150)), Num(1))
         /\ econ[k].Percent_saved_N = Num(1)
         /\ econ[k].Percent_saved_total = econ[k].Percent_saved_P
         /\ Lt(econ[k].Percent_saved_P, econ[k].Percent_saved_N)

\* C9: one station valid for all three parameters in one year, 100 ha,
\* sediment 2,000,000 kg, particulate N 4,000 kg and P 400 kg, total N 5,000
\* kg and P 500 kg, gives sediment yield 20,000 kg/ha, grades 2 and 0.2 g/kg,
\* recovered 40 and 4 kg/ha, usable N 16 kg/ha (16/150, about 10.7 %), usable
\* P 2.56 kg/ha (2.56/22, about 11.6 %), and limiting percent = the N percent.
C9_Scenario ==
    /\ Len(annual) = 1
    /\ annual[1].Valid_Sed /\ annual[1].Valid_N /\ annual[1].Valid_P
    /\ annual[1].Area_ha = Num(100)
    /\ annual[1].Sediment_load_kg = Num(2000000)
    /\ annual[1].Particulate_N_mass_kg = Num(4000)
    /\ annual[1].Particulate_P_mass_kg = Num(400)
    /\ annual[1].N_mass_kg = Num(5000)
    /\ annual[1].P_mass_kg = Num(500)

C9_EndToEnd ==
    C9_Scenario =>
        /\ Ran("Sediment_out") =>
              /\ Len(Region) = 1
              /\ Region[1].Sediment_kg_ha_yr = Num(20000)
              /\ Region[1].gN_per_kg_sediment = Num(2)
              /\ Region[1].gP_per_kg_sediment = Dec(2, -1)
              /\ Region[1].kgN_recovered_per_ha_20t = Num(40)
              /\ Region[1].kgP_recovered_per_ha_20t = Num(4)
        /\ Ran("economic_value") =>
              /\ Len(econ) = 1
              /\ econ[1].N_usable_kg_per_ha = Num(16)
              /\ econ[1].P_usable_kg_per_ha = Dec(256, -2)
              /\ econ[1].Percent_saved_N = Div(Num(16), Num(150))
              /\ econ[1].Percent_saved_P = Div(Dec(256, -2), Num(22))
              /\ Lt(Dec(1066, -4), econ[1].Percent_saved_N)
              /\ Lt(econ[1].Percent_saved_N, Dec(1067, -4))
              /\ Lt(Dec(1163, -4), econ[1].Percent_saved_P)
              /\ Lt(econ[1].Percent_saved_P, Dec(1164, -4))
              /\ econ[1].Percent_saved_total = econ[1].Percent_saved_N

C9_Witness == C9_Scenario /\ Ran("economic_value")

\* the events of a station whose timestamp parses, by index in the event file
DatedEvents(st) ==
    {i \in 1..Len(events) :
        /\ events[i].USGS_Station_Number = st
        /\ ~ToDatetime(events[i].storm_start).nat}

\* a mass column of the site analysis summed over a set of event indices
DatedSum(D, col) ==
    SumFn([i \in D |-> FillNa(SiteEvent(events[i], columns)[col], Zero)], D)

\* C10: an event whose start timestamp is missing or unparseable is left out
\* of every aggregate: each per-site total of the site analysis (sediment,
\* particulate N and P mass, event count, years monitored) counts only the
\* events of the station whose timestamp parses.
C10_UndatedEventsExcluded ==
    Ran("Site_Specific_Analysis") =>
        \A k \in 1..Len(site_stats) :
            LET r == site_stats[k]
                D == DatedEvents(r.USGS_Station_Number)
            IN  /\ r.Sediment_load_kg = DatedSum(D, "Sediment_load_kg")
                /\ r.Particulate_P_mass_kg = DatedSum(D, "Particulate_P_mass_kg")
                /\ r.Particulate_N_mass_kg = DatedSum(D, "Particulate_N_mass_kg")
                /\ r.Event_Count = Cardinality(D)
                /\ r.Years_Monitored =
                     Cardinality({ToDatetime(events[i].storm_start).year : i \in D})

\* C11: every per-hectare yield column of a regional row divides by the
\* effective area of its own parameter: the particulate N yield is the
\* particulate N mass of the N-valid station-years over their summed area,
\* the particulate P yield likewise over the P-valid station-years, each
\* undefined when that area is zero.
C11_ParticulateYieldOwnArea ==
    Ran("Sediment_out") =>
        \A k \in 1..Len(Region) :
            LET r == Region[k]
                N == FlaggedRows(r.Year, "Valid_N")
                P == FlaggedRows(r.Year, "Valid_P")
            IN  /\ r.Particulate_N_kg_ha_yr =
                     RatioOrNull(TotalOver(N, "Particulate_N_mass_kg"),
                                 TotalOver(N, "Area_ha"))
                /\ r.Particulate_P_kg_ha_yr =
                     RatioOrNull(TotalOver(P, "Particulate_P_mass_kg"),
                                 TotalOver(P, "Area_ha"))

\* the years of the station-year table, and whether a year has a station-year
\* valid for some parameter
AnnualYears == {annual[i].Year : i \in 1..Len(annual)}
AnyValid(y) ==
    \E i \in 1..Len(annual) :
        /\ annual[i].Year = y
        /\ (annual[i].Valid_Sed \/ annual[i].Valid_N \/ annual[i].Valid_P)

ZeroRow(r) ==
    /\ r.Effective_Area_ha = Zero
    /\ r.Effective_Area_N_ha = Zero
    /\ r.Effective_Area_P_ha = Zero
    /\ r.Total_Sediment_kg = Zero
    /\ r.Total_N_kg = Zero
    /\ r.Total_P_kg = Zero
    /\ r.Particulate_N_kg = Zero
    /\ r.Particulate_P_kg = Zero
    /\ IsNaN(r.Sediment_kg_ha_yr)
    /\ IsNaN(r.N_kg_ha_yr)
    /\ IsNaN(r.P_kg_ha_yr)
    /\ IsNaN(r.Particulate_N_kg_ha_yr)
    /\ IsNaN(r.Particulate_P_kg_ha_yr)

\* C12: the regional table has exactly one row per distinct year of the
\* station-year table, in ascending year order; a year in which no station is
\* valid for any parameter keeps its row, with the three effective areas and
\* all mass totals zero and all per-hectare yields undefined.
C12_OneRowPerYear ==
    Ran("Sediment_out") =>
        /\ {Region[k].Year : k \in 1..Len(Region)} = AnnualYears
        /\ Len(Region) = Cardinality(AnnualYears)
        /\ \A k \in 1..(Len(Region) - 1) : Region[k].Year < Region[k + 1].Year
        /\ \A k \in 1..Len(Region) : ~AnyValid(Region[k].Year) => ZeroRow(Region[k])

\* a table of two years, the later one without any valid station
C12_Witness ==
    /\ Ran("Sediment_out")
    /\ Len(Region) = 2
    /\ Gt(Region[1].Effective_Area_ha, Zero)
    /\ ~AnyValid(Region[2].Year)
    /\ ZeroRow(Region[2])

\* whether an event has a reading in a column (a column that is not in the
\* file has no reading in any event)
Present(i, col) == ~IsNaN(events[i][col])

MaxOf(a, b) == IF Lt(a, b) THEN b ELSE a

\* C13: for every event, the particulate N concentration is
\* max(0, Kjeldahl N - ammonia N) when the event has both readings, and is the
\* event's total N concentration (zero-filled) whenever either of the two
\* readings is absent for that event.
C13_ParticulateNPerEvent ==
    run["Sediment_out"] # "no" =>
        \A i \in 1..Len(df) :
            df[i].Particulate_N_conc_mgL =
                IF Present(i, tkn_col) /\ Present(i, ammonia_col)
                THEN MaxOf(Zero, Sub(events[i][tkn_col], events[i][ammonia_col]))
                ELSE FillNa(events[i][N_conc], Zero)

\* C14: for every event, the particulate P concentration is
\* max(0, total P - orthophosphate P), and is the total P when the event has
\* no orthophosphate reading (a missing total P counting as zero); the
\* particulate P and N concentrations of every event are numbers >= 0,
\* whatever readings are present, missing or inverted by noise.
C14_ParticulatePNonNegative ==
    run["Sediment_out"] # "no" =>
        \A i \in 1..Len(df) :
            LET total_P == FillNa(events[i][P_conc], Zero)
            IN  /\ df[i].Particulate_P_conc_mgL =
                     IF Present(i, orthophosphate_col)
                     THEN MaxOf(Zero, Sub(total_P, events[i][orthophosphate_col]))
                     ELSE total_P
                /\ Le(Zero, df[i].Particulate_P_conc_mgL)
                /\ Le(Zero, df[i].Particulate_N_conc_mgL)

\* a file with the orthophosphate column holding an event whose dissolved P
\* exceeds its total P (clamped to 0) and an event with total P but no
\* orthophosphate reading (particulate P = total P)
C14_Witness ==
    /\ run["Sediment_out"] # "no"
    /\ orthophosphate_col \in columns
    /\ \E i \in 1..Len(df) :
         /\ Present(i, P_conc) /\ Present(i, orthophosphate_col)
         /\ Lt(events[i][P_conc], events[i][orthophosphate_col])
         /\ df[i].Particulate_P_conc_mgL = Zero
    /\ \E i \in 1..Len(df) :
         /\ Present(i, P_conc) /\ ~Present(i, orthophosphate_col)
         /\ Gt(df[i].Particulate_P_conc_mgL, Zero)
         /\ df[i].Particulate_P_conc_mgL = events[i][P_conc]

\* C15: a missing concentration or runoff volume gives no value for the
\* mass computed from it (an event without a total N or total P reading has
\* an undefined N or P mass), and a station-year none of whose events has
\* that reading has an undefined, not zero, summed N or P mass.
C15_MissingStaysMissing ==
    run["Sediment_out"] # "no" =>
        /\ \A i \in 1..Len(df) :
              /\ ~Present(i, N_conc) => IsNaN(df[i].N_mass_kg)
              /\ ~Present(i, P_conc) => IsNaN(df[i].P_mass_kg)
              /\ ~Present(i, "runoff_volume") =>
                    IsNaN(df[i].N_mass_kg) /\ IsNaN(df[i].P_mass_kg)
        /\ \A k \in 1..Len(annual) :
              LET a == annual[k]
              IN  /\ ~HasReading(a.USGS_Station_Number, a.Year, N_conc) =>
                        IsNaN(a.N_mass_kg)
                  /\ ~HasReading(a.USGS_Station_Number, a.Year, P_conc) =>
                        IsNaN(a.P_mass_kg)

\* the (station, year) pairs of the events whose timestamp parses
EventPairs ==
    {<<st, y>> \in Stations \X Years : GroupEvents(st, y) # {}}

\* a mass column of the event frame summed over a set of its rows, each row
\* once, a row without a value adding nothing
MassOver(G, col) == SumFn([i \in G |-> FillNa(df[i][col], Zero)], G)

MassColumns ==
    {"Sediment_load_kg", "P_mass_kg", "N_mass_kg",
     "Particulate_P_mass_kg", "Particulate_N_mass_kg"}

\* C16: with one site row per station, the station-year table has exactly
\* one row per (station, year) pair of the events with a parseable year; each
\* of its five mass columns is the sum of that mass over the events of the
\* pair, each counted once; its area is the station's site area in hectares
\* (acres x 0.4046856), taken once however many events the group has.
C16_StationYearRows ==
    run["Sediment_out"] # "no" =>
        /\ {<<annual[k].USGS_Station_Number, annual[k].Year>> : k \in 1..Len(annual)}
               = EventPairs
        /\ Len(annual) = Cardinality(EventPairs)
        /\ \A k \in 1..Len(annual) :
              LET a == annual[k]
                  G == GroupEvents(a.USGS_Station_Number, a.Year)
              IN  /\ \A col \in MassColumns : a[col] = MassOver(G, col)
                  /\ a.Area_ha = Mul(sites[a.USGS_Station_Number], Dec(4046856, -7))

\* a station-year of two events with a sediment load: the loads add up and
\* the area is that of the station, not twice it
C16_Witness ==
    /\ run["Sediment_out"] # "no"
    /\ \E k \in 1..Len(annual) :
         LET a == annual[k]
             G == GroupEvents(a.USGS_Station_Number, a.Year)
         IN  /\ Cardinality(G) = 2
             /\ \A i \in G : Gt(df[i].Sediment_load_kg, Zero)
             /\ \A i \in G : Gt(a.Sediment_load_kg, df[i].Sediment_load_kg)
             /\ a.Area_ha = Num(100)

\* C17: for every year with a non-negative reuse area the Method A
\* (limiting-nutrient) total never exceeds the Method B (separate-pricing)
\* total, and the two are equal exactly when the N and P percents of demand
\* coincide or the reuse area is zero.
C17_MethodANotAboveB ==
    Ran("economic_value") =>
        \A k \in 1..Len(econ) :
            LET r == econ[k]
                A == r.Cost_reduction_total_USD_limiting
                B == r.Cost_reduction_total_USD
            IN  Le(Zero, r.ReuseArea_20t_ha) =>
                    /\ Le(A, B)
                    /\ (A = B) <=> (\/ r.Percent_saved_N = r.Percent_saved_P
                                    \/ r.ReuseArea_20t_ha = Zero)

\* a table with a year whose percents differ on a positive reuse area
\* (A below B) and a year whose percents coincide on a positive reuse area
\* (A equal to B)
C17_Witness ==
    /\ Ran("economic_value")
    /\ \E k \in 1..Len(econ) :
         /\ Gt(econ[k].ReuseArea_20t_ha, Zero)
         /\ econ[k].Percent_saved_N # econ[k].Percent_saved_P
         /\ Gt(econ[k].Percent_saved_total, Zero)
         /\ Lt(econ[k].Cost_reduction_total_USD_limiting,
               econ[k].Cost_reduction_total_USD)
    /\ \E k \in 1..Len(econ) :
         /\ Gt(econ[k].ReuseArea_20t_ha, Zero)
         /\ econ[k].Percent_saved_N = econ[k].Percent_saved_P
         /\ econ[k].Cost_reduction_total_USD_limiting =
               econ[k].Cost_reduction_total_USD

\* C18: in the site analysis, for every retained site (total sediment above
\* 100 kg, grade defined) the optimized dose is
\* min(22 / (P grade / 1000 x 0.8), 100000) kg/ha when the effective P content
\* is positive and 0 otherwise; the plant-available P per hectare at that
\* dose is at most 22 kg/ha; the potential reuse area is the average annual
\* load over the dose, and exactly 0 when the dose is 0; the ranks are 1..n
\* in non-increasing order of total value per hectare.
C18_SiteDoseAndRank ==
    Ran("Site_Specific_Analysis") =>
        /\ \A k \in 1..Len(site_stats) :
              LET r    == site_stats[k]
                  gP   == r.Grade_P_g_kg
                  effP == Mul(Div(gP, Num(1000)), Dec(8, -1))
                  dose == r.Optimized_Dose_kg_ha
              IN  /\ Gt(r.Sediment_load_kg, Num(100))
                  /\ IsFinite(gP) /\ IsFinite(r.Grade_N_g_kg)
                  /\ dose = IF Gt(effP, Zero)
                            THEN MinOf(Div(Num(22), effP), Num(100000))
                            ELSE Zero
                  /\ r.P_Available_kg_ha = Mul(Mul(Div(gP, Num(1000)), dose), Dec(8, -1))
                  /\ Le(r.P_Available_kg_ha, Num(22))
                  /\ r.Potential_Reuse_Area_ha =
                        IF dose = Zero THEN Zero
                        ELSE Div(r.Avg_Annual_Load_kg, dose)
                  /\ r.Rank = k
        /\ \A k \in 1..(Len(site_stats) - 1) :
              Le(site_stats[k + 1].Total_Value_USD_ha, site_stats[k].Total_Value_USD_ha)

\* two retained sites: the first ranked with its dose held at the physical
\* limit and a positive value, the second with no particulate P, dose 0 and
\* reuse area 0
C18_Witness ==
    /\ Ran("Site_Specific_Analysis")
    /\ Len(site_stats) = 2
    /\ site_stats[1].Optimized_Dose_kg_ha = Num(100000)
    /\ Gt(site_stats[1].Max_Allowed_Dose_kg_ha, Num(100000))
    /\ Gt(site_stats[1].Potential_Reuse_Area_ha, Zero)
    /\ Gt(site_stats[1].Total_Value_USD_ha, site_stats[2].Total_Value_USD_ha)
    /\ site_stats[2].Optimized_Dose_kg_ha = Zero
    /\ site_stats[2].Potential_Reuse_Area_ha = Zero
    /\ site_stats[1].Rank = 1 /\ site_stats[2].Rank = 2

====
